---- MODULE Spec2Model ----
(***************************************************************************)
(* Model of src/main.py: a FastAPI application object `app` with two GET   *)
(* routes, `root` on "/" and `health` on "/health".                        *)
(*                                                                         *)
(* The file itself holds only the two handlers and the two decorators.     *)
(* Everything else the service does with a request (route matching, the   *)
(* 404/405 answers, the trailing-slash redirect, the documentation routes, *)
(* JSON serialisation) is what `FastAPI()` on line 3 brings in with its    *)
(* default arguments; it is modelled here as the FastAPI/Starlette router  *)
(* behaves, and mapped to line 3.                                          *)
(*                                                                         *)
(* A path is the sequence of its segments after the leading "/":          *)
(*   "/" = <<"">>, "/health" = <<"health">>, "/health/" = <<"health","">>. *)
(* A JSON object body is the set of its <<key, value>> pairs.              *)
(***************************************************************************)
EXTENDS Naturals, Sequences, FiniteSets

VARIABLES pc, conn, matched, resp, log, accepted

vars == <<pc, conn, matched, resp, log, accepted>>

\* Bounds of the model.
MaxRequests == 3
NumWorkers == 2

Workers == 1..NumWorkers

----------------------------------------------------------------------------
\* Paths

RootPath == <<"">>
HealthPath == <<"health">>
HealthSlashPath == <<"health", "">>
DocsPath == <<"docs">>
OpenapiPath == <<"openapi.json">>
RedocPath == <<"redoc">>
OAuth2RedirectPath == <<"docs", "oauth2-redirect">>
NonexistentPath == <<"nonexistent">>

endswith_slash(path) == Len(path) > 0 /\ path[Len(path)] = ""

RECURSIVE rstrip_slash(_)
rstrip_slash(path) ==
    IF endswith_slash(path)
    THEN rstrip_slash(SubSeq(path, 1, Len(path) - 1))
    ELSE path

----------------------------------------------------------------------------
\* src/main.py: the two handlers and their registration

rootStale ==
    [status |-> IF Len(log) > 0 THEN "stale" ELSE "running",
     message |-> "GKE app deployed securely using Terraform + OIDC"]

rootShared ==
    [status |-> IF Cardinality({w \in Workers : pc[w] # "idle"}) > 1
                THEN "busy" ELSE "running",
     message |-> "GKE app deployed securely using Terraform + OIDC"]

rootExtraKey ==
    [status |-> "running",
     message |-> "GKE app deployed securely using Terraform + OIDC",
     version |-> "1"]

root ==
    [status |-> "running",
     message |-> "GKE app deployed securely using Terraform + OIDC"]

healthDown == [health |-> "down"]

health == [health |-> "ok"]

\* app.get(path) registers the decorated function for GET only.
UserRoutesAnyMethod ==
    << [path |-> RootPath, methods |-> {"GET", "POST", "HEAD"}, endpoint |-> "root"],
       [path |-> HealthPath, methods |-> {"GET", "POST", "HEAD"}, endpoint |-> "health"] >>

UserRoutesCatchAll ==
    << [path |-> RootPath, methods |-> {"GET"}, endpoint |-> "root"],
       [path |-> HealthPath, methods |-> {"GET"}, endpoint |-> "health"],
       [path |-> NonexistentPath, methods |-> {"GET"}, endpoint |-> "health"] >>

UserRoutes ==
    << [path |-> RootPath, methods |-> {"GET"}, endpoint |-> "root"],
       [path |-> HealthPath, methods |-> {"GET"}, endpoint |-> "health"] >>

----------------------------------------------------------------------------
\* FastAPI(): the application object with its default arguments

\* openapi_url, docs_url, swagger_ui_oauth2_redirect_url and redoc_url keep
\* their defaults, so setup() adds these four routes before the user's.  They
\* are plain Starlette routes, which add HEAD to GET.
FrameworkRoutes ==
    << [path |-> OpenapiPath, methods |-> {"GET", "HEAD"}, endpoint |-> "openapi"],
       [path |-> DocsPath, methods |-> {"GET", "HEAD"}, endpoint |-> "swagger_ui_html"],
       [path |-> OAuth2RedirectPath, methods |-> {"GET", "HEAD"},
        endpoint |-> "swagger_ui_redirect"],
       [path |-> RedocPath, methods |-> {"GET", "HEAD"}, endpoint |-> "redoc_html"] >>

routes == FrameworkRoutes \o UserRoutes

redirect_slashes == TRUE

default_media_type_text == "text/plain"

default_media_type == "application/json"

\* Route.matches: the path decides NONE, the method decides PARTIAL or FULL.
\* Query string, headers and body are not looked at.
matchesRawUrl(route, request) ==
    IF route.path # request.path \/ request.query # "" THEN "none"
    ELSE IF request.method \notin route.methods THEN "partial"
    ELSE "full"

matchesPathOnly(route, request) ==
    IF route.path # request.path THEN "none" ELSE "full"

matches(route, request) ==
    IF route.path # request.path THEN "none"
    ELSE IF request.method \notin route.methods THEN "partial"
    ELSE "full"

Matching(request, kind) ==
    {i \in 1..Len(routes) : matches(routes[i], request) = kind}

First(S) == CHOOSE i \in S : \A j \in S : i <= j

redirect_path(path) ==
    IF endswith_slash(path) THEN rstrip_slash(path) ELSE Append(path, "")

NoMatch == [kind |-> "none", endpoint |-> ""]

\* Router.app: the first full match, else the first partial match, else a
\* redirect when the path with its trailing slash toggled matches a route,
\* else the default (not found).
RouterMatch(request) ==
    IF Matching(request, "full") # {}
    THEN [kind |-> "full", endpoint |-> routes[First(Matching(request, "full"))].endpoint]
    ELSE IF Matching(request, "partial") # {}
    THEN [kind |-> "partial",
          endpoint |-> routes[First(Matching(request, "partial"))].endpoint]
    ELSE IF /\ redirect_slashes
            /\ request.path # RootPath
            /\ \E i \in 1..Len(routes) :
                 matches(routes[i], [request EXCEPT !.path = redirect_path(request.path)])
                   # "none"
    THEN [kind |-> "redirect", endpoint |-> ""]
    ELSE NoMatch

\* jsonable_encoder + JSONResponse.render on a dict of strings: the object's
\* key/value pairs.
jsonable(d) == {<<k, d[k]>> : k \in DOMAIN d}

\* Stand-ins for the documents the framework routes serve; no claim is about
\* their contents.
OpenapiSchema == {<<"openapi", "3.1.0">>}
SwaggerPage == {<<"html", "swagger-ui">>}
SwaggerRedirectPage == {<<"html", "oauth2-redirect">>}
RedocPage == {<<"html", "redoc">>}

NoResponse == [status |-> 0, media_type |-> "", body |-> {}]

\* The endpoint call and the serialisation of what it returns.
CallEndpoint(endpoint) ==
    IF endpoint = "root"
    THEN [status |-> 200, media_type |-> default_media_type, body |-> jsonable(root)]
    ELSE IF endpoint = "health"
    THEN [status |-> 200, media_type |-> default_media_type, body |-> jsonable(health)]
    ELSE IF endpoint = "openapi"
    THEN [status |-> 200, media_type |-> "application/json", body |-> OpenapiSchema]
    ELSE IF endpoint = "swagger_ui_html"
    THEN [status |-> 200, media_type |-> "text/html", body |-> SwaggerPage]
    ELSE IF endpoint = "swagger_ui_redirect"
    THEN [status |-> 200, media_type |-> "text/html", body |-> SwaggerRedirectPage]
    ELSE [status |-> 200, media_type |-> "text/html", body |-> RedocPage]

\* What the application answers for a match.
Handle(m) ==
    IF m.kind = "full" THEN CallEndpoint(m.endpoint)
    ELSE IF m.kind = "partial"
    THEN [status |-> 405, media_type |-> "application/json",
          body |-> {<<"detail", "Method Not Allowed">>}]
    ELSE IF m.kind = "redirect"
    THEN [status |-> 307, media_type |-> "", body |-> {}]
    ELSE [status |-> 404, media_type |-> "application/json",
          body |-> {<<"detail", "Not Found">>}]

\* A request handled start to finish with nothing else going on.
Respond(request) == Handle(RouterMatch(request))

----------------------------------------------------------------------------
\* Requests

Request(m, p, q, h, b) ==
    [method |-> m, path |-> p, query |-> q, headers |-> h, body |-> b]

Plain(m, p) == Request(m, p, "", "", "")

NoRequest == Request("", <<>>, "", "", "")

NoConn == [id |-> 0, request |-> NoRequest]

Methods == {"GET", "POST", "HEAD"}

Paths == {RootPath, HealthPath, HealthSlashPath, DocsPath, OpenapiPath,
          NonexistentPath}

\* Every method on every path, nothing else in the request.
RoutingRequests == {Plain(m, p) : m \in Methods, p \in Paths}

\* The mix used for the concurrent runs.
Requests ==
    {Plain(m, p) : m \in {"GET", "POST"},
                   p \in {RootPath, HealthPath, DocsPath, NonexistentPath}}

Extras ==
    { [query |-> "", headers |-> "", body |-> ""],
      [query |-> "x=1", headers |-> "", body |-> ""],
      [query |-> "", headers |-> "X-Debug: 1", body |-> ""],
      [query |-> "", headers |-> "", body |-> "{}"] }

\* The two registered paths with varying query string, headers and body.
InputRequests ==
    {Request(m, p, e.query, e.headers, e.body) :
        m \in {"GET", "POST"}, p \in {RootPath, HealthPath}, e \in Extras}

----------------------------------------------------------------------------
\* The service: each worker takes a request, routes it, runs the handler
\* and sends the response.

Init ==
    /\ pc = [w \in Workers |-> "idle"]
    /\ conn = [w \in Workers |-> NoConn]
    /\ matched = [w \in Workers |-> NoMatch]
    /\ resp = [w \in Workers |-> NoResponse]
    /\ log = <<>>
    /\ accepted = 0

Accept(w, R) ==
    /\ pc[w] = "idle"
    /\ accepted < MaxRequests
    /\ \E r \in R :
         conn' = [conn EXCEPT ![w] = [id |-> accepted + 1, request |-> r]]
    /\ accepted' = accepted + 1
    /\ pc' = [pc EXCEPT ![w] = "route"]
    /\ UNCHANGED <<matched, resp, log>>

Route(w) ==
    /\ pc[w] = "route"
    /\ matched' = [matched EXCEPT ![w] = RouterMatch(conn[w].request)]
    /\ pc' = [pc EXCEPT ![w] = "call"]
    /\ UNCHANGED <<conn, resp, log, accepted>>

Call(w) ==
    /\ pc[w] = "call"
    /\ resp' = [resp EXCEPT ![w] = Handle(matched[w])]
    /\ pc' = [pc EXCEPT ![w] = "send"]
    /\ UNCHANGED <<conn, matched, log, accepted>>

SendAndKeep(w) ==
    /\ pc[w] = "send"
    /\ log' = Append(log, [id |-> conn[w].id, request |-> conn[w].request,
                           response |-> resp[w]])
    /\ Len(log) < MaxRequests + 1
    /\ UNCHANGED <<pc, conn, matched, resp, accepted>>

Send(w) ==
    /\ pc[w] = "send"
    /\ log' = Append(log, [id |-> conn[w].id, request |-> conn[w].request,
                           response |-> resp[w]])
    /\ pc' = [pc EXCEPT ![w] = "idle"]
    /\ conn' = [conn EXCEPT ![w] = NoConn]
    /\ matched' = [matched EXCEPT ![w] = NoMatch]
    /\ resp' = [resp EXCEPT ![w] = NoResponse]
    /\ UNCHANGED accepted

Step(w) == Route(w) \/ Call(w) \/ Send(w)

Next == \E w \in Workers : Accept(w, Requests) \/ Route(w) \/ Call(w) \/ Send(w)

Spec == Init /\ [][Next]_vars

\* The same service on a request mix with one request per way of handling.
\* The handlers do not block, so a worker that holds a request keeps going:
\* weak fairness on each worker's steps.
LiveRequests ==
    {Plain("GET", RootPath), Plain("GET", HealthPath), Plain("POST", RootPath),
     Plain("GET", NonexistentPath)}

LiveNext == \E w \in Workers : Accept(w, LiveRequests) \/ Route(w) \/ Call(w) \/ Send(w)

LiveSpec == Init /\ [][LiveNext]_vars /\ \A w \in Workers : WF_vars(Step(w))

\* One request at a time, every method on every path.
RoutingNext == Accept(1, RoutingRequests) \/ Route(1) \/ Call(1) \/ Send(1)

RoutingSpec == Init /\ [][RoutingNext]_vars

\* One request at a time, the registered paths with varying inputs.
InputNext == Accept(1, InputRequests) \/ Route(1) \/ Call(1) \/ Send(1)

InputSpec == Init /\ [][InputNext]_vars

----------------------------------------------------------------------------
\* Properties

Entries == 1..Len(log)

IsReq(e, m, p) == e.request.method = m /\ e.request.path = p

RootBody ==
    {<<"status", "running">>,
     <<"message", "GKE app deployed securely using Terraform + OIDC">>}

HealthBody == {<<"health", "ok">>}

\* The paths FastAPI() registers by itself.
DocPaths == {OpenapiPath, DocsPath, OAuth2RedirectPath, RedocPath}

\* A path that differs from a registered one by trailing slashes only.
SlashVariant(p) ==
    endswith_slash(p) /\ rstrip_slash(p) \in DocPaths \cup {HealthPath}

\* C1: every GET "/" is answered 200 with a body of exactly the two pairs
\* status = "running" and message = "GKE app deployed securely using
\* Terraform + OIDC".
C1_RootResponse ==
    \A i \in Entries :
        IsReq(log[i], "GET", RootPath) =>
            /\ log[i].response.status = 200
            /\ log[i].response.body = RootBody
            /\ {kv[1] : kv \in log[i].response.body} = {"status", "message"}

C1_Witness ==
    \E i \in Entries : IsReq(log[i], "GET", RootPath) /\ i > 1

\* C2: every GET "/health" is answered 200 with a body of exactly the one
\* pair health = "ok".
C2_HealthResponse ==
    \A i \in Entries :
        IsReq(log[i], "GET", HealthPath) =>
            /\ log[i].response.status = 200
            /\ log[i].response.body = HealthBody
            /\ {kv[1] : kv \in log[i].response.body} = {"health"}

C2_Witness ==
    \E i \in Entries : IsReq(log[i], "GET", HealthPath) /\ i > 1

OtherGet(request) ==
    request.method = "GET" /\ request.path \notin {RootPath, HealthPath}

RanUserHandler(w) ==
    /\ pc[w] \in {"call", "send"}
    /\ matched[w].kind = "full"
    /\ matched[w].endpoint \in {"root", "health"}

C4_PostRootIs405 ==
    /\ \A i \in Entries :
           IsReq(log[i], "POST", RootPath) =>
               /\ log[i].response.status = 405
               /\ log[i].response.body # RootBody
    /\ \A w \in Workers :
           (conn[w].request.method = "POST" /\ conn[w].request.path = RootPath)
               => ~RanUserHandler(w)

C4_Witness ==
    \E i \in Entries : IsReq(log[i], "POST", RootPath)

\* C5: whenever the same request has been answered more than once, whatever
\* was handled in between, every answer has the status and body of the first.
C5_Idempotent ==
    \A i \in Entries : \A j \in Entries :
        (i < j /\ log[i].request = log[j].request) =>
            /\ log[j].response.status = log[i].response.status
            /\ log[j].response.body = log[i].response.body

C5_Witness ==
    /\ Len(log) >= 3
    /\ log[1].request = log[3].request
    /\ log[2].request # log[1].request
    /\ log[1].response.status = 200

\* C6: under every interleaving of the workers, each answer sent, and each
\* answer about to be sent, is the one the request gets when handled alone.
C6_ConcurrentAsAlone ==
    /\ \A i \in Entries : log[i].response = Respond(log[i].request)
    /\ \A w \in Workers : pc[w] = "send" => resp[w] = Respond(conn[w].request)

\* Two requests were in flight together and finished out of order, while a
\* third is in flight.
C6_Witness ==
    /\ Len(log) >= 2
    /\ log[1].id > log[2].id
    /\ \E w \in Workers : pc[w] = "send"

SameRoute(a, b) ==
    /\ a.request.method = b.request.method
    /\ a.request.path = b.request.path
    /\ a.request.path \in {RootPath, HealthPath}

\* C7: two requests with the same method and the same path, "/" or
\* "/health", get the same status and the same body whatever their query
\* string, headers and request body.
C7_InputsIgnored ==
    \A i \in Entries : \A j \in Entries :
        SameRoute(log[i], log[j]) =>
            /\ log[i].response.status = log[j].response.status
            /\ log[i].response.body = log[j].response.body

C7_Witness ==
    \E i \in Entries : \E j \in Entries : \E k \in Entries :
        /\ SameRoute(log[i], log[j]) /\ SameRoute(log[j], log[k])
        /\ log[i].request.query # log[j].request.query
        /\ log[j].request.body # log[k].request.body
        /\ log[i].request.headers # log[k].request.headers

\* C8 as stated: GET "/" and GET "/health" are the only pairs answered 200,
\* and every other pair is answered 404 or 405.
C8_OnlyTwoRoutes ==
    \A i \in Entries :
        IF log[i].request.method = "GET"
           /\ log[i].request.path \in {RootPath, HealthPath}
        THEN log[i].response.status = 200
        ELSE log[i].response.status \in {404, 405}

\* C8 amended: the pairs answered 200 are GET "/" and GET "/health", which
\* the source binds, and GET and HEAD on the documentation paths, which the
\* framework binds; every other pair is answered 404, 405 or, on a path
\* that differs from a registered path by trailing slashes, 307.
C8_RoutesAmended ==
    \A i \in Entries :
        IF \/ /\ log[i].request.method = "GET"
              /\ log[i].request.path \in {RootPath, HealthPath}
           \/ /\ log[i].request.method \in {"GET", "HEAD"}
              /\ log[i].request.path \in DocPaths
        THEN log[i].response.status = 200
        ELSE /\ log[i].response.status \in {404, 405, 307}
             /\ log[i].response.status = 307 => SlashVariant(log[i].request.path)

C8_Witness ==
    /\ \E i \in Entries : IsReq(log[i], "HEAD", DocsPath)
    /\ \E i \in Entries : IsReq(log[i], "HEAD", RootPath)
    /\ \E i \in Entries : IsReq(log[i], "POST", HealthSlashPath)

\* C9: every 200 answer to GET "/" and GET "/health" has media type
\* application/json and a JSON object as its body.
C9_JsonContentType ==
    \A i \in Entries :
        (/\ log[i].request.method = "GET"
         /\ log[i].request.path \in {RootPath, HealthPath}
         /\ log[i].response.status = 200) =>
            /\ log[i].response.media_type = "application/json"
            /\ log[i].response.body \in {RootBody, HealthBody}

C9_Witness ==
    /\ \E i \in Entries : IsReq(log[i], "GET", RootPath) /\ log[i].response.status = 200
    /\ \E i \in Entries :
           IsReq(log[i], "GET", HealthPath) /\ log[i].response.status = 200

Answers(n) == Cardinality({i \in Entries : log[i].id = n})

\* C10: under fair scheduling of the workers every accepted request is
\* eventually answered, and no request is ever answered twice.
C10_ExactlyOneResponse ==
    /\ \A n \in 1..MaxRequests : (accepted >= n) ~> (Answers(n) = 1)
    /\ [](\A n \in 1..MaxRequests : Answers(n) <= 1)

C10_Witness ==
    /\ accepted = MaxRequests
    /\ \A n \in 1..MaxRequests : Answers(n) = 1
    /\ \A w \in Workers : pc[w] = "idle"

====
